---- MODULE Spec2Model ----
(***************************************************************************)
(* Model of briefly's main.py: the Matrix message pipeline                 *)
(* (MatrixClient._get_messages, _format_messages, get_messages), the       *)
(* rendering loop of main, and main's loop over the configured clients.    *)
(*                                                                         *)
(* JSON / Python values are tagged records:                                *)
(*   Absent   the key is not in the mapping                                *)
(*   PyNone   None (JSON null)                                             *)
(*   PyStr(s) a str, s a sequence of one-character strings                 *)
(*   PyInt(n) an int                                                       *)
(*   PyList   a non-empty list (truthy, unhashable, no .get, no .split)    *)
(*   [k |-> "dict", ...]  a mapping, one field per key the code reads      *)
(***************************************************************************)
EXTENDS Integers, Sequences, FiniteSets, TLC

VARIABLES pc, r, i, display_names, formatted_messages, messages, out,
          clients, fails, ci, digests, mpc

vars == <<pc, r, i, display_names, formatted_messages, messages, out,
          clients, fails, ci, digests, mpc>>

pipeVars == <<pc, r, i, display_names, formatted_messages, messages, out>>

mainVars == <<clients, fails, ci, digests, mpc>>

(***************************************************************************)
(* Bounds                                                                  *)
(***************************************************************************)
MaxChunk == 3

MaxProbeChunk == 1

MaxClients == 3

(***************************************************************************)
(* Python values                                                           *)
(***************************************************************************)
Absent == [k |-> "absent"]

PyNone == [k |-> "none"]

PyList == [k |-> "list"]

Raised == [k |-> "raise"]

PyStr(s) == [k |-> "str", v |-> s]

PyInt(n) == [k |-> "int", v |-> n]

IsStr(x) == x.k = "str"

IsDict(x) == x.k = "dict"

\* bool(x) for the values above
Truthy(x) ==
  CASE x.k = "str" -> x.v # <<>>
    [] x.k = "int" -> x.v # 0
    [] x.k = "list" -> TRUE
    [] x.k = "dict" -> TRUE
    [] OTHER -> FALSE

Hashable(x) == x.k \notin {"list", "dict"}

\* mapping.get(key, default): the default only when the key is missing
GetD(x, default) == IF x = Absent THEN default ELSE x

\* mapping.get(key): None when the key is missing
GetN(x) == GetD(x, PyNone)

(***************************************************************************)
(* String literals of the program                                          *)
(***************************************************************************)
S_member == <<"m", ".", "r", "o", "o", "m", ".", "m", "e", "m", "b", "e", "r">>

S_message == <<"m", ".", "r", "o", "o", "m", ".", "m", "e", "s", "s", "a", "g", "e">>

S_thread == <<"m", ".", "t", "h", "r", "e", "a", "d">>

S_Unknown == <<"U", "n", "k", "n", "o", "w", "n">>

S_unknown == <<"u", "n", "k", "n", "o", "w", "n">>

HashLen == 8

\* the {} default of event.get("content", {}) and content.get("m.relates_to", {})
EmptyContent == [k |-> "dict", displayname |-> Absent, body |-> Absent, relates_to |-> Absent]

EmptyRelatesTo == [k |-> "dict", rel_type |-> Absent, event_id |-> Absent, in_reply_to |-> Absent]

EmptyInReplyTo == [k |-> "dict", event_id |-> Absent]

(***************************************************************************)
(* str.split("$") and slicing                                              *)
(***************************************************************************)
RECURSIVE SplitFrom(_, _, _, _)
SplitFrom(s, p, cur, acc) ==
  IF p > Len(s) THEN Append(acc, cur)
  ELSE IF s[p] = "$" THEN SplitFrom(s, p + 1, <<>>, Append(acc, cur))
  ELSE SplitFrom(s, p + 1, Append(cur, s[p]), acc)

SplitDollar(s) == SplitFrom(s, 1, <<>>, <<>>)

\* s[:n]
Prefix(s, n) == SubSeq(s, 1, IF Len(s) < n THEN Len(s) ELSE n)

ShortHash_first(s) == Prefix(SplitDollar(s)[1], HashLen)

\* s.split("$")[-1][:8]
ShortHash(s) == Prefix(SplitDollar(s)[Len(SplitDollar(s))], HashLen)

\* event_id.split("$")[-1][:8] if event_id else "unknown"; Raised when a
\* truthy event_id has no .split
EventHash(event_id) ==
  IF Truthy(event_id)
  THEN IF IsStr(event_id) THEN PyStr(ShortHash(event_id.v)) ELSE Raised
  ELSE PyStr(S_unknown)

\* reply_to_hash = None; if reply_to_event_id: reply_to_hash = ...split...
ReplyToHash(reply_to_event_id) ==
  IF Truthy(reply_to_event_id)
  THEN IF IsStr(reply_to_event_id) THEN PyStr(ShortHash(reply_to_event_id.v)) ELSE Raised
  ELSE PyNone

(***************************************************************************)
(* _format_messages, first pass: one iteration of the member-event loop    *)
(***************************************************************************)
IsType(event, t) == GetN(event.type) = PyStr(t)

\* display_names[sender] = display_name
DictSet(dn, key, val) == [x \in (DOMAIN dn) \cup {key} |-> IF x = key THEN val ELSE dn[x]]

\* display_names.get(sender)
DictGet(dn, key) == IF key \in DOMAIN dn THEN dn[key] ELSE PyNone

EmptyDict == [x \in {} |-> PyNone]

\* a normal completion of the loop body, carrying the dict
Names(dn) == [k |-> "names", dn |-> dn]

CollectName_anytype(dn, event) ==
  LET sender == GetN(event.sender)
      content == GetD(event.content, EmptyContent)
  IN IF ~IsDict(content) THEN Raised
     ELSE LET display_name == GetN(content.displayname)
          IN IF Truthy(sender) /\ Truthy(display_name)
             THEN IF Hashable(sender) THEN Names(DictSet(dn, sender, display_name)) ELSE Raised
             ELSE Names(dn)

CollectName_firstwins(dn, event) ==
  IF ~IsType(event, S_member) THEN Names(dn)
  ELSE LET sender == GetN(event.sender)
           content == GetD(event.content, EmptyContent)
       IN IF ~IsDict(content) THEN Raised
          ELSE LET display_name == GetN(content.displayname)
               IN IF Truthy(sender) /\ Truthy(display_name)
                  THEN IF Hashable(sender)
                       THEN Names(IF sender \in DOMAIN dn THEN dn ELSE DictSet(dn, sender, display_name))
                       ELSE Raised
                  ELSE Names(dn)

\* The body of the first loop for one event: Names(the new display_names),
\* or Raised when the body raises (no try around this loop).
CollectName(dn, event) ==
  IF ~IsType(event, S_member) THEN Names(dn)
  ELSE LET sender == GetN(event.sender)
           content == GetD(event.content, EmptyContent)
       IN IF ~IsDict(content) THEN Raised
          ELSE LET display_name == GetN(content.displayname)
               IN IF Truthy(sender) /\ Truthy(display_name)
                  THEN IF Hashable(sender) THEN Names(DictSet(dn, sender, display_name)) ELSE Raised
                  ELSE Names(dn)

(***************************************************************************)
(* _format_messages, second pass: the try body for one message event       *)
(***************************************************************************)
\* is_reply = "m.in_reply_to" in relates_to
IsReply(relates_to) == relates_to.in_reply_to # Absent

\* is_thread = relates_to.get("rel_type") == "m.thread"
IsThread(relates_to) == GetN(relates_to.rel_type) = PyStr(S_thread)

\* the if is_thread / elif is_reply chain; Raised when m.in_reply_to has no .get
ReplyToEventId(relates_to) ==
  IF IsThread(relates_to) THEN GetN(relates_to.event_id)
  ELSE IF IsReply(relates_to)
       THEN LET in_reply_to == GetD(relates_to.in_reply_to, EmptyInReplyTo)
            IN IF IsDict(in_reply_to) THEN GetN(in_reply_to.event_id) ELSE Raised
  ELSE PyNone

\* The try body for the event at position idx of the chunk: the record that
\* is appended, or Raised when the body raises (caught, the event is skipped).
\* raw_event is a reference to the event object, i.e. its position.
FormatEvent(event, idx, dn) ==
  LET sender == GetD(event.sender, PyStr(S_Unknown))
      content == GetD(event.content, EmptyContent)
  IN IF ~Hashable(sender) \/ ~IsDict(content) THEN Raised
     ELSE LET relates_to == GetD(content.relates_to, EmptyRelatesTo)
          IN IF ~IsDict(relates_to) THEN Raised
             ELSE LET reply_to_event_id == ReplyToEventId(relates_to)
                      event_id == GetD(event.event_id, PyStr(<<>>))
                  IN IF reply_to_event_id = Raised \/ EventHash(event_id) = Raised
                        \/ ReplyToHash(reply_to_event_id) = Raised
                     THEN Raised
                     ELSE [nickname |-> sender,
                           display_name |-> DictGet(dn, sender),
                           sender |-> sender,
                           body |-> GetD(content.body, PyStr(<<>>)),
                           timestamp |-> GetD(event.origin_server_ts, PyInt(0)),
                           is_reply |-> IsReply(relates_to),
                           is_thread |-> IsThread(relates_to),
                           reply_to_event_id |-> reply_to_event_id,
                           event_hash |-> EventHash(event_id),
                           reply_to_hash |-> ReplyToHash(reply_to_event_id),
                           raw_event |-> idx]

(***************************************************************************)
(* get_messages: messages.sort(key=lambda x: x["timestamp"])               *)
(***************************************************************************)
\* list.sort compares keys with <; it raises TypeError as soon as two keys
\* that are not both ints are compared, which happens for any list of two
\* or more elements holding a None key.
SortRaises(ms) == Len(ms) >= 2 /\ \E p \in 1..Len(ms) : ms[p].timestamp.k # "int"

InsertPoint_before(sorted, x) ==
  Cardinality({p \in 1..Len(sorted) : sorted[p].timestamp.v < x.timestamp.v})

\* where a stable sort puts x into an already sorted list: after every
\* element whose key is not greater
InsertPoint(sorted, x) ==
  Cardinality({p \in 1..Len(sorted) : sorted[p].timestamp.v <= x.timestamp.v})

RECURSIVE SortUpTo(_, _)
SortUpTo(ms, n) ==
  IF n = 0 THEN <<>>
  ELSE LET sorted == SortUpTo(ms, n - 1)
           at == InsertPoint(sorted, ms[n])
       IN SubSeq(sorted, 1, at) \o <<ms[n]>> \o SubSeq(sorted, at + 1, Len(sorted))

SortByTimestamp(ms) == IF Len(ms) < 2 THEN ms ELSE SortUpTo(ms, Len(ms))

(***************************************************************************)
(* main: one line of the log per message                                   *)
(***************************************************************************)
\* the if / elif / else that picks the annotation
Annotation(msg) ==
  IF msg.is_thread /\ Truthy(msg.reply_to_hash) THEN "Th"
  ELSE IF msg.is_reply /\ Truthy(msg.reply_to_hash) THEN "Re"
  ELSE "none"

\* Raised when msg["timestamp"] / 1000 raises
RenderLine(msg) ==
  IF msg.timestamp.k # "int" THEN Raised
  ELSE [time |-> msg.timestamp.v, hash |-> msg.event_hash, nickname |-> msg.nickname,
        ann |-> Annotation(msg),
        ann_hash |-> IF Annotation(msg) = "none" THEN PyNone ELSE msg.reply_to_hash,
        body |-> msg.body]

(***************************************************************************)
(* Inputs: the events a fetched chunk is made of                           *)
(***************************************************************************)
S_reaction == <<"m", ".", "r", "e", "a", "c", "t", "i", "o", "n">>

S_annotation == <<"m", ".", "a", "n", "n", "o", "t", "a", "t", "i", "o", "n">>

U_a == PyStr(<<"@", "a">>)

U_b == PyStr(<<"@", "b">>)

N_Alice == PyStr(<<"A", "l", "i", "c", "e">>)

N_Bob == PyStr(<<"B", "o", "b">>)

Empty == PyStr(<<>>)

B_hi == PyStr(<<"h", "i">>)

\* "!room:server$abcdefgh12345"
ID_room == PyStr(<<"!", "r", "o", "o", "m", ":", "s", "e", "r", "v", "e", "r", "$",
                   "a", "b", "c", "d", "e", "f", "g", "h", "1", "2", "3", "4", "5">>)

\* "$xxxx1111"
ID_x == PyStr(<<"$", "x", "x", "x", "x", "1", "1", "1", "1">>)

\* "$yyyyyyyy2222"
ID_y == PyStr(<<"$", "y", "y", "y", "y", "y", "y", "y", "y", "2", "2", "2", "2">>)

\* "a$b$cdefghijk"
ID_two == PyStr(<<"a", "$", "b", "$", "c", "d", "e", "f", "g", "h", "i", "j", "k">>)

\* "$abc"
ID_short == PyStr(<<"$", "a", "b", "c">>)

\* "abc$"
ID_tail == PyStr(<<"a", "b", "c", "$">>)

\* "nodollarsign"
ID_plain == PyStr(<<"n", "o", "d", "o", "l", "l", "a", "r", "s", "i", "g", "n">>)

Content(displayname, relates_to) ==
  [k |-> "dict", displayname |-> displayname, body |-> B_hi, relates_to |-> relates_to]

RelatesTo(rel_type, event_id, in_reply_to) ==
  [k |-> "dict", rel_type |-> rel_type, event_id |-> event_id, in_reply_to |-> in_reply_to]

InReplyTo(event_id) == [k |-> "dict", event_id |-> event_id]

Event(type, sender, content, ts, event_id) ==
  [type |-> PyStr(type), sender |-> sender, content |-> content,
   origin_server_ts |-> ts, event_id |-> event_id]

Message(sender, relates_to, ts, event_id) ==
  Event(S_message, sender, Content(Absent, relates_to), ts, event_id)

Member(sender, displayname) ==
  Event(S_member, sender, Content(displayname, Absent), PyInt(1), ID_x)

\* membership events, messages of the same senders, and a reaction that
\* carries a displayname
NameEvents ==
  {Member(U_a, d) : d \in {Absent, Empty, N_Alice, N_Bob}}
  \cup {Member(s, N_Alice) : s \in {Absent, Empty, U_b}}
  \cup {Message(s, Absent, PyInt(1), ID_x) : s \in {Empty, U_a, U_b}}
  \cup {Event(S_reaction, U_a, Content(N_Bob, Absent), PyInt(1), ID_x)}

\* messages that differ in their timestamp only
SortEvents ==
  {Message(U_a, Absent, ts, ID_x) : ts \in {Absent, PyInt(1), PyInt(2), PyNone}}

\* events of the wrong shape next to well-formed ones
MalformedEvents ==
  {Member(U_a, N_Alice),
   Event(S_member, U_a, PyNone, PyInt(1), ID_x),
   Member(PyList, N_Alice),
   Message(U_a, Absent, PyInt(1), ID_x),
   Event(S_message, U_a, PyNone, PyInt(1), ID_x),
   Message(PyList, Absent, PyInt(1), ID_x),
   Message(U_a, PyNone, PyInt(1), ID_x),
   Message(U_a, RelatesTo(Absent, Absent, PyNone), PyInt(1), ID_x),
   Message(U_a, Absent, PyInt(1), PyInt(5))}

\* one message with every shape of m.relates_to, or of event_id
RelationEvents ==
  {Message(U_a, RelatesTo(t, e, ir), PyInt(1), ID_x) :
     t \in {Absent, PyStr(S_thread), PyStr(S_annotation)},
     e \in {Absent, Empty, ID_y, PyInt(5)},
     ir \in {Absent, PyNone, InReplyTo(Absent), InReplyTo(Empty), InReplyTo(ID_room)}}

HashEvents ==
  {Message(U_a, Absent, PyInt(1), e) :
     e \in {Absent, PyNone, Empty, ID_room, ID_x, ID_two, ID_short, ID_tail, ID_plain, PyInt(5)}}
  \cup {[type |-> PyStr(S_message), sender |-> Absent, content |-> Absent,
          origin_server_ts |-> Absent, event_id |-> Absent]}

SeqsUpTo(S, n) == UNION {[1..m -> S] : m \in 0..n}

Chunks ==
  SeqsUpTo(NameEvents, MaxChunk) \cup SeqsUpTo(SortEvents, MaxChunk)
  \cup SeqsUpTo(MalformedEvents, MaxChunk)
  \cup SeqsUpTo(RelationEvents \cup HashEvents, MaxProbeChunk)

(***************************************************************************)
(* The pipeline of one Matrix client: get_messages, then main's log loop   *)
(***************************************************************************)
Init ==
  /\ pc = "get_messages"
  /\ r = <<>>
  /\ i = 1
  /\ display_names = EmptyDict
  /\ formatted_messages = <<>>
  /\ messages = <<>>
  /\ out = <<>>
  /\ clients = <<>>
  /\ fails = {}
  /\ ci = 1
  /\ digests = {}
  /\ mpc = "idle"

\* r = await self._get_messages(): the response, or the request raises
GetMessagesRequest ==
  /\ pc = "get_messages"
  /\ \/ \E chunk \in Chunks : r' = chunk /\ pc' = "names"
     \/ r' = r /\ pc' = "request_raised"
  /\ i' = 1
  /\ display_names' = EmptyDict
  /\ UNCHANGED <<formatted_messages, messages, out, mainVars>>

NamesLoopDone_early(k, chunk) == k > 1 \/ k > Len(chunk)

\* the first loop has consumed every event of the chunk
NamesLoopDone(k, chunk) == k > Len(chunk)

\* one iteration of the first loop; an exception leaves _format_messages
NamesStep ==
  /\ pc = "names"
  /\ ~NamesLoopDone(i, r)
  /\ IF CollectName(display_names, r[i]) = Raised
     THEN pc' = "format_raised" /\ UNCHANGED <<i, display_names>>
     ELSE pc' = pc /\ i' = i + 1 /\ display_names' = CollectName(display_names, r[i]).dn
  /\ UNCHANGED <<r, formatted_messages, messages, out, mainVars>>

\* formatted_messages = [] and entry into the second loop
NamesDone ==
  /\ pc = "names"
  /\ NamesLoopDone(i, r)
  /\ pc' = "enrich"
  /\ i' = 1
  /\ formatted_messages' = <<>>
  /\ UNCHANGED <<r, display_names, messages, out, mainVars>>

\* one iteration of the second loop: other types pass, a message event is
\* appended unless its try body raises
EnrichStep ==
  /\ pc = "enrich"
  /\ i <= Len(r)
  /\ i' = i + 1
  /\ formatted_messages' =
       IF IsType(r[i], S_message) /\ FormatEvent(r[i], i, display_names) # Raised
       THEN Append(formatted_messages, FormatEvent(r[i], i, display_names))
       ELSE formatted_messages
  /\ UNCHANGED <<pc, r, display_names, messages, out, mainVars>>

\* return formatted_messages
EnrichDone ==
  /\ pc = "enrich"
  /\ i > Len(r)
  /\ pc' = "sort"
  /\ messages' = formatted_messages
  /\ UNCHANGED <<r, i, display_names, formatted_messages, out, mainVars>>

\* messages.sort(...); return messages
Sort ==
  /\ pc = "sort"
  /\ IF SortRaises(messages)
     THEN pc' = "sort_raised" /\ UNCHANGED messages
     ELSE pc' = "render" /\ messages' = SortByTimestamp(messages)
  /\ i' = 1
  /\ UNCHANGED <<r, display_names, formatted_messages, out, mainVars>>

\* for msg in messages: print one line
RenderStep ==
  /\ pc = "render"
  /\ i <= Len(messages)
  /\ IF RenderLine(messages[i]) = Raised
     THEN pc' = "render_raised" /\ UNCHANGED <<i, out>>
     ELSE pc' = pc /\ i' = i + 1 /\ out' = Append(out, RenderLine(messages[i]))
  /\ UNCHANGED <<r, display_names, formatted_messages, messages, mainVars>>

RenderDone ==
  /\ pc = "render"
  /\ i > Len(messages)
  /\ pc' = "done"
  /\ UNCHANGED <<r, i, display_names, formatted_messages, messages, out, mainVars>>

Next ==
  \/ GetMessagesRequest
  \/ NamesStep
  \/ NamesDone
  \/ EnrichStep
  \/ EnrichDone
  \/ Sort
  \/ RenderStep
  \/ RenderDone

Spec == Init /\ [][Next]_vars

(***************************************************************************)
(* main: the loop over the configured clients.  A client's fetch           *)
(* (issues_and_prs, get_messages) either returns or raises; fails is the   *)
(* set of clients whose fetch raises.                                      *)
(***************************************************************************)
ClientKinds == {"github", "matrix"}

InitMain ==
  /\ pc = "idle"
  /\ r = <<>>
  /\ i = 1
  /\ display_names = EmptyDict
  /\ formatted_messages = <<>>
  /\ messages = <<>>
  /\ out = <<>>
  /\ clients \in SeqsUpTo(ClientKinds, MaxClients)
  /\ fails \in SUBSET (1..Len(clients))
  /\ ci = 1
  /\ digests = {}
  /\ mpc = "loop"

\* what one iteration of for section_name, client in clients.items() does
\* once the fetch of client c has raised or returned: nothing catches the
\* exception, so it leaves main
AfterFetch(c) ==
  IF c \in fails
  THEN mpc' = "raised" /\ ci' = ci /\ digests' = digests
  ELSE mpc' = mpc /\ ci' = ci + 1 /\ digests' = digests \cup {c}

\* isinstance(client, GitHubClient): issues_and_prs, then the issues and PRs
MainGitHub ==
  /\ mpc = "loop"
  /\ ci <= Len(clients)
  /\ clients[ci] = "github"
  /\ AfterFetch(ci)
  /\ UNCHANGED <<clients, fails, pipeVars>>

\* isinstance(client, MatrixClient): get_messages, then the log
MainMatrix ==
  /\ mpc = "loop"
  /\ ci <= Len(clients)
  /\ clients[ci] = "matrix"
  /\ AfterFetch(ci)
  /\ UNCHANGED <<clients, fails, pipeVars>>

MainDone ==
  /\ mpc = "loop"
  /\ ci > Len(clients)
  /\ mpc' = "done"
  /\ UNCHANGED <<clients, fails, ci, digests, pipeVars>>

NextMain ==
  \/ MainGitHub
  \/ MainMatrix
  \/ MainDone

SpecMain == InitMain /\ [][NextMain]_vars

(***************************************************************************)
(* _format_messages as a function of the chunk: both loops run to the end  *)
(***************************************************************************)
Returns(v) == [k |-> "return", v |-> v]

RECURSIVE CollectNames(_, _)
CollectNames(chunk, n) ==
  IF n = 0 THEN Names(EmptyDict)
  ELSE LET before == CollectNames(chunk, n - 1)
       IN IF before = Raised THEN Raised ELSE CollectName(before.dn, chunk[n])

RECURSIVE FormatUpTo(_, _, _)
FormatUpTo(chunk, n, dn) ==
  IF n = 0 THEN <<>>
  ELSE IF IsType(chunk[n], S_message) /\ FormatEvent(chunk[n], n, dn) # Raised
       THEN Append(FormatUpTo(chunk, n - 1, dn), FormatEvent(chunk[n], n, dn))
       ELSE FormatUpTo(chunk, n - 1, dn)

FormatMessages(chunk) ==
  IF CollectNames(chunk, Len(chunk)) = Raised THEN Raised
  ELSE Returns(FormatUpTo(chunk, Len(chunk), CollectNames(chunk, Len(chunk)).dn))

(***************************************************************************)
(* Vocabulary of the properties                                            *)
(***************************************************************************)
\* get_messages has returned its list to main
Returned == pc \in {"render", "done"}

Records == {formatted_messages[p] : p \in 1..Len(formatted_messages)}

Threaded(m) == m.is_thread

Reply(m) == m.is_reply /\ ~m.is_thread

Plain(m) == ~m.is_reply /\ ~m.is_thread

\* the m.relates_to mapping of the event a record was made of
RelatesToOf(m) == GetD(r[m.raw_event].content.relates_to, EmptyRelatesTo)

\* the last "$" of s, 0 when there is none
LastDollar(s) ==
  LET at == {p \in 1..Len(s) : s[p] = "$"}
  IN IF at = {} THEN 0 ELSE CHOOSE p \in at : \A q \in at : q <= p

\* the first HashLen characters that follow the last "$" of a str, the
\* sentinel for an empty or missing one
ShortForm(x) ==
  IF IsStr(x) /\ x.v # <<>>
  THEN PyStr([p \in 1..(IF Len(x.v) - LastDollar(x.v) < HashLen
                        THEN Len(x.v) - LastDollar(x.v) ELSE HashLen)
                |-> x.v[LastDollar(x.v) + p]])
  ELSE PyStr(S_unknown)

\* event j of the chunk is a membership event of sender s with a non-empty
\* displayname
NamesSender(j, s) ==
  /\ IsType(r[j], S_member)
  /\ r[j].sender = s
  /\ IsDict(r[j].content)
  /\ Truthy(GetN(r[j].content.displayname))

LastOf(S) == CHOOSE j \in S : \A q \in S : q <= j

WithoutRef(m) == [f \in (DOMAIN m) \ {"raw_event"} |-> m[f]]

WithoutRefs(ms) == [p \in 1..Len(ms) |-> WithoutRef(ms[p])]

IsOtherType(event) == ~IsType(event, S_member) /\ ~IsType(event, S_message)

WithoutOtherTypes(chunk) == SelectSeq(chunk, LAMBDA e : ~IsOtherType(e))

(***************************************************************************)
(* Properties                                                              *)
(***************************************************************************)
\* C1: every record is exactly one of Plain, Reply, Threaded, and its
\* reply_to_event_id is not None if and only if it is not Plain.
C1_RelationMatchesRelatedId ==
  \A m \in Records :
    /\ Cardinality({x \in {"plain", "reply", "threaded"} :
                      \/ x = "plain" /\ Plain(m)
                      \/ x = "reply" /\ Reply(m)
                      \/ x = "threaded" /\ Threaded(m)}) = 1
    /\ (m.reply_to_event_id # PyNone) <=> ~Plain(m)

\* C2: a message whose m.relates_to has rel_type m.thread and the key
\* m.in_reply_to is Threaded, its reply_to_event_id is relates_to.event_id,
\* and its line carries the Th annotation.
C2_ThreadPrecedence ==
  pc = "done" =>
    \A p \in 1..Len(messages) :
      IsThread(RelatesToOf(messages[p])) /\ IsReply(RelatesToOf(messages[p])) =>
        /\ Threaded(messages[p])
        /\ messages[p].reply_to_event_id = GetN(RelatesToOf(messages[p]).event_id)
        /\ out[p].ann = "Th"

\* C3: the returned list is sorted by timestamp, records of equal timestamp
\* keep the order of their events in the chunk, and the list is a
\* permutation of what _format_messages returned.
C3_SortedStable ==
  Returned =>
    /\ \A p, q \in 1..Len(messages) :
         p < q =>
           /\ messages[p].timestamp.v <= messages[q].timestamp.v
           /\ messages[p].timestamp.v = messages[q].timestamp.v =>
                messages[p].raw_event < messages[q].raw_event
    /\ Len(messages) = Len(formatted_messages)
    /\ {messages[p] : p \in 1..Len(messages)} = Records
    /\ \A p, q \in 1..Len(formatted_messages) :
         p < q => formatted_messages[p].raw_event < formatted_messages[q].raw_event

C3_Witness ==
  /\ Returned
  /\ messages # formatted_messages
  /\ \E p, q \in 1..Len(messages) :
       p < q /\ messages[p].timestamp.v = messages[q].timestamp.v

\* C4: no exception leaves _format_messages, and every message event whose
\* try body completes has its record in what is returned.
C4_MalformedEventsSkipped ==
  /\ pc # "format_raised"
  /\ pc = "sort" =>
       \A j \in 1..Len(r) :
         IsType(r[j], S_message) /\ FormatEvent(r[j], j, display_names) # Raised =>
           \E m \in Records : m.raw_event = j

\* C5: when main has ended, the digest of every client whose fetch does not
\* raise has been produced.
C5_FailureIsolated ==
  mpc \in {"done", "raised"} => \A c \in 1..Len(clients) : c \notin fails => c \in digests

\* C6 as stated: display_name is the displayname of the last membership
\* event of the chunk with the record's sender and a non-empty displayname,
\* None when there is none.
C6_LastWriteWins ==
  \A m \in Records :
    LET named == {j \in 1..Len(r) : NamesSender(j, m.sender)}
    IN m.display_name = IF named = {} THEN PyNone ELSE r[LastOf(named)].content.displayname

\* C6 amended: as above, for membership events whose sender is non-empty.
C6_LastWriteWinsNonEmptySender ==
  \A m \in Records :
    LET named == {j \in 1..Len(r) : Truthy(m.sender) /\ NamesSender(j, m.sender)}
    IN m.display_name = IF named = {} THEN PyNone ELSE r[LastOf(named)].content.displayname

C6_Witness ==
  /\ pc = "done"
  /\ \E m \in Records :
       \E j1, j2 \in 1..Len(r) :
         /\ j1 < j2
         /\ NamesSender(j1, m.sender) /\ NamesSender(j2, m.sender)
         /\ r[j1].content.displayname # r[j2].content.displayname
         /\ m.display_name = r[j2].content.displayname

\* C7: event_hash is the first 8 characters after the last "$" of event_id,
\* "unknown" for an empty or missing event_id; "!room:server$abcdefgh12345"
\* gives "abcdefgh".
C7_EventHash ==
  \A m \in Records :
    /\ m.event_hash = ShortForm(GetN(r[m.raw_event].event_id))
    /\ r[m.raw_event].event_id = ID_room =>
         m.event_hash = PyStr(<<"a", "b", "c", "d", "e", "f", "g", "h">>)

C7_Witness ==
  /\ pc = "done"
  /\ \E m \in Records :
       /\ r[m.raw_event].event_id = ID_room
       /\ m.event_hash = PyStr(<<"a", "b", "c", "d", "e", "f", "g", "h">>)

\* C8: reply_to_hash is not None if and only if reply_to_event_id is not
\* None, and is then the short hash of reply_to_event_id.
C8_RelatedHashIffRelatedId ==
  \A m \in Records :
    /\ (m.reply_to_hash # PyNone) <=> (m.reply_to_event_id # PyNone)
    /\ m.reply_to_event_id # PyNone => m.reply_to_hash = ShortForm(m.reply_to_event_id)

\* C9: the records are those of the message events, one each and in chunk
\* order, and the chunk without its events of other types gives the same
\* records and the same display names.
C9_OtherTypesIgnored ==
  /\ \A m \in Records : IsType(r[m.raw_event], S_message)
  /\ \A p, q \in 1..Len(formatted_messages) :
       p < q => formatted_messages[p].raw_event < formatted_messages[q].raw_event
  /\ pc = "sort" =>
       /\ \A j \in 1..Len(r) :
            (\E m \in Records : m.raw_event = j) <=>
              (IsType(r[j], S_message) /\ FormatEvent(r[j], j, display_names) # Raised)
       /\ FormatMessages(WithoutOtherTypes(r)) # Raised
       /\ WithoutRefs(formatted_messages) = WithoutRefs(FormatMessages(WithoutOtherTypes(r)).v)
  /\ pc = "format_raised" => FormatMessages(WithoutOtherTypes(r)) = Raised

C9_Witness ==
  /\ pc = "sort"
  /\ \E j \in 1..Len(r) :
       /\ IsOtherType(r[j])
       /\ Truthy(GetN(r[j].content.displayname))
       /\ \E m \in Records : m.sender = r[j].sender /\ m.raw_event > j /\ m.display_name = PyNone
  /\ \E j \in 1..Len(r) : IsType(r[j], S_member)

\* C10: the stages follow one another in order, each after the whole of the
\* one before: no record exists before the first loop has consumed the
\* chunk, a record has the display name of a membership event that comes
\* later in the chunk, and the sort sees every record.
StageOrder ==
  \/ pc' = pc
  \/ pc = "get_messages" /\ pc' \in {"names", "request_raised"}
  \/ pc = "names" /\ pc' = "format_raised"
  \/ pc = "names" /\ pc' = "enrich" /\ i = Len(r) + 1
  \/ pc = "enrich" /\ pc' = "sort" /\ i = Len(r) + 1
  \/ pc = "sort" /\ pc' \in {"render", "sort_raised"}
  \/ pc = "render" /\ pc' \in {"done", "render_raised"}

NoPipelining ==
  /\ pc \in {"get_messages", "names"} => formatted_messages = <<>>
  /\ pc \in {"get_messages", "names", "enrich"} => messages = <<>> /\ out = <<>>
  /\ pc = "enrich" => display_names = CollectNames(r, Len(r)).dn
  /\ pc \in {"sort", "render", "done"} =>
       formatted_messages = FormatUpTo(r, Len(r), CollectNames(r, Len(r)).dn)
  /\ \A m \in Records :
       \A j \in 1..Len(r) :
         j > m.raw_event /\ Truthy(m.sender) /\ NamesSender(j, m.sender) =>
           m.display_name # PyNone

C10_StagesInOrder == []NoPipelining /\ [][StageOrder]_vars

C10_Witness ==
  /\ pc = "done"
  /\ \E m \in Records :
       /\ m.display_name # PyNone
       /\ \A j \in 1..Len(r) : NamesSender(j, m.sender) => j > m.raw_event

====
